---- MODULE Spec2Model ----
(***************************************************************************)
(* performContainerStateUpdateInCauldron of ern-local-cli/src/lib/utils.js *)
(* as a state machine: one process holding the Cauldron client (a single   *)
(* transaction slot), and the invocations the process makes of the update  *)
(* function, one await per step.                                           *)
(*                                                                         *)
(* The Cauldron client (ern-core) is modelled from its interface: the      *)
(* transaction primitives and the reads and writes the function consumes.  *)
(***************************************************************************)
EXTENDS Integers, Sequences, FiniteSets, TLC

\* Number of invocations of performContainerStateUpdateInCauldron a run makes.
MaxInvocations == 2

Invocations == 1..MaxInvocations

\* The napDescriptor arguments.
Descriptors == {"MyApp:android:1.0.0"}

\* A container version is <<major, minor, patch, prerelease>>; NoVersion is
\* the falsy value (undefined, null, '').
NoVersion == <<>>

\* Top-level container versions a descriptor starts with.
InitialVersions == {NoVersion, <<2, 1, 0, FALSE>>}

\* Values of options.containerVersion.
ContainerVersionOptions == {NoVersion, <<2, 1, 0, TRUE>>}

VARIABLES
    cauldron,        \* the Cauldron client: committed state, transaction
    published,       \* <<descriptor, version>> of the containers published
    discardPending,  \* invocations whose discardTransaction() has not settled
    discardFailed,   \* invocations whose discardTransaction() failed
    pc,              \* per invocation: idle, select, try, resolved, rejected
    step,            \* per invocation: index in TryBody of the awaited call
    napDescriptor,   \* per invocation: the descriptor argument
    containerVersion,          \* per invocation: options.containerVersion
    topLevelContainerVersion,  \* per invocation: what the Cauldron read gave
    cauldronContainerVersion,  \* per invocation: the selected version
    error,           \* per invocation: the error the caller receives
    logged,          \* <<invocation, level, what>> written to the log
    trace,           \* per invocation: the calls made, <<call, outcome>>
    genCalls,        \* arguments of the runCauldronContainerGen calls
    updCalls,        \* arguments of the updateContainerVersion calls
    versionAtCall,   \* per invocation: committed versions when it was called
    chkGiven,        \* logErrorAndExitIfNotSatisfied: the keys, as supplied
    chkFailing,      \* the conditions that do not hold
    chkPc,           \* idle, running, passed, returned, exited
    chkPos,          \* index in CheckOrder of the last check made
    chkInvoked,      \* the checks invoked, in order
    spinner,         \* the spinner's events, <<event, argument>>
    exitCode,        \* status the process exited with (-1: it has not)
    runPc,           \* runMiniApp: where the call is
    runPlatform,     \* its platform argument
    runArgs,         \* its options
    runEnv,          \* the working directory it runs in
    runLocals,       \* its local variables
    runError,        \* the error it threw
    runEffects,      \* the calls it made, in order
    napPc,           \* getNapDescriptorStringsFromCauldron: where the call is
    napOptions,      \* its options
    napApps,         \* what cauldron.getAllNativeApps() returned
    napResult        \* the list it returned

updateVars == <<cauldron, published, discardPending, discardFailed, pc, step,
                napDescriptor, containerVersion, topLevelContainerVersion,
                cauldronContainerVersion, error, logged, trace, genCalls,
                updCalls, versionAtCall>>

checkVars == <<chkGiven, chkFailing, chkPc, chkPos, chkInvoked, spinner,
               exitCode>>

runVars == <<runPc, runPlatform, runArgs, runEnv, runLocals, runError,
            runEffects>>

napVars == <<napPc, napOptions, napApps, napResult>>

\* What performContainerStateUpdateInCauldron leaves alone.
otherVars == <<checkVars, runVars, napVars>>

\* What logErrorAndExitIfNotSatisfied leaves alone.
checkOtherVars == <<updateVars, runVars, napVars>>

\* What getNapDescriptorStringsFromCauldron leaves alone.
napOtherVars == <<updateVars, checkVars, runVars>>

vars == <<updateVars, checkVars, runVars, napVars>>

----------------------------------------------------------------------------
\* The Cauldron client.

\* The state a reader sees: the version pointer of each descriptor, the
\* mutations applied (by invocation) and the pointer writes applied.
StoreState(vs) == [version |-> vs, muts |-> {}, ptrs |-> {}]

\* No transaction open: working mirrors committed. owners holds the
\* invocations whose transaction was begun and is neither committed nor
\* discarded.
CauldronInit(vs) ==
    [committed |-> StoreState(vs), working |-> StoreState(vs),
     txOpen |-> FALSE, owners |-> {}]

\* What the process itself reads: its transaction's state while one is open.
View(c) == IF c.txOpen THEN c.working ELSE c.committed

\* getTopLevelContainerVersion(descriptor) -> SemVer | null
GetTopLevelContainerVersion(c, d) == View(c).version[d]

\* Variant: a client that opens a transaction over an open one.
CanBeginAlways(c) == TRUE

\* beginTransaction() fails if a transaction is already open.
CanBegin(c) == ~c.txOpen

BeginTransactionOk(c, i) ==
    [c EXCEPT !.txOpen = TRUE, !.working = c.committed,
              !.owners = @ \cup {i}]

\* A write goes to the open transaction, and straight to the store when
\* none is open.
Write(c, s) ==
    IF c.txOpen THEN [c EXCEPT !.working = s]
    ELSE [c EXCEPT !.committed = s, !.working = s]

\* The change a stateUpdateFunc makes (that of invocation i).
WriteMutation(c, i) == Write(c, [View(c) EXCEPT !.muts = @ \cup {i}])

\* updateContainerVersion(descriptor, version)
WriteContainerVersion(c, d, v, i) ==
    Write(c, [View(c) EXCEPT !.version[d] = v, !.ptrs = @ \cup {i}])

\* commitTransaction() fails if no transaction is open.
CanCommit(c) == c.txOpen

CommitTransactionOk(c) ==
    [c EXCEPT !.committed = c.working, !.txOpen = FALSE, !.owners = {}]

\* discardTransaction(): drops the open transaction, if any.
DiscardTransactionOk(c) ==
    [c EXCEPT !.working = c.committed, !.txOpen = FALSE, !.owners = {}]

----------------------------------------------------------------------------
\* performContainerStateUpdateInCauldron

\* Variant: options.containerVersion ignored.
GivenNever(cv) == FALSE

\* if (containerVersion): a version is given when the option is truthy.
Given(cv) == cv # NoVersion

\* Variant: semver.inc(v, 'minor').
SemverIncMinor(v) == <<v[1], v[2] + 1, 0, FALSE>>

\* semver.inc(v, 'patch'): a prerelease of x.y.z becomes x.y.z.
SemverIncPatch(v) ==
    <<v[1], v[2], IF v[4] THEN v[3] ELSE v[3] + 1, FALSE>>

\* Variant: another default than 1.0.0.
DefaultContainerVersionZero == <<0, 0, 1, FALSE>>

\* // Default to 1.0.0 for Container version
DefaultContainerVersion == <<1, 0, 0, FALSE>>

\* The version selected from the current top-level container version.
NextContainerVersion(top) ==
    IF top # NoVersion THEN SemverIncPatch(top) ELSE DefaultContainerVersion

\* Variant: the version pointer written before the container is generated.
TryBodyUpdateBeforeGen ==
    <<"beginTransaction", "stateUpdateFunc", "updateContainerVersion",
      "runCauldronContainerGen", "commitTransaction">>

\* Variant: the container generated before the state update is applied.
TryBodyGenBeforeStateUpdate ==
    <<"beginTransaction", "runCauldronContainerGen", "stateUpdateFunc",
      "updateContainerVersion", "commitTransaction">>

\* Variant: the transaction committed before the container is generated.
TryBodyCommitBeforeGen ==
    <<"beginTransaction", "stateUpdateFunc", "updateContainerVersion",
      "commitTransaction", "runCauldronContainerGen">>

\* The awaited calls of the try block, in program order.
TryBody ==
    <<"beginTransaction", "stateUpdateFunc", "runCauldronContainerGen",
      "updateContainerVersion", "commitTransaction">>

\* Variant: a catch block that leaves the transaction alone.
CatchBodyNoDiscard == <<"log.error", "throw">>

\* Variant: a catch block that swallows the error.
CatchBodyNoThrow == <<"log.error", "discardTransaction">>

\* The statements of the catch block.
CatchBody == <<"log.error", "discardTransaction", "throw">>

\* Variant: { publish: false }
PublishOptionOff == FALSE

\* { publish: true }
PublishOption == TRUE

\* Variant: throw new Error(...) in place of the error caught.
RethrowGeneric(e) == "Error"

\* throw e
Rethrow(e) == e

\* How a discardTransaction() call that nobody awaits stands when the catch
\* block throws: its effect has taken place, or it is still in flight.
DiscardResults == {"done", "pending"}

Returned(i) == pc[i] \in {"resolved", "rejected"}
Awaiting(i, call) ==
    /\ pc[i] = "try"
    /\ step[i] \in 1..Len(TryBody)
    /\ TryBody[step[i]] = call

\* No call made yet; vs are the versions recorded in the Cauldron.
UpdateInit(vs) ==
    /\ cauldron = CauldronInit(vs)
    /\ published = {<<d, vs[d]>> : d \in {x \in Descriptors : vs[x] # NoVersion}}
    /\ discardPending = {}
    /\ discardFailed = {}
    /\ pc = [i \in Invocations |-> "idle"]
    /\ step = [i \in Invocations |-> 0]
    /\ napDescriptor = [i \in Invocations |-> CHOOSE d \in Descriptors : TRUE]
    /\ containerVersion = [i \in Invocations |-> NoVersion]
    /\ topLevelContainerVersion = [i \in Invocations |-> NoVersion]
    /\ cauldronContainerVersion = [i \in Invocations |-> NoVersion]
    /\ error = [i \in Invocations |-> "none"]
    /\ logged = {}
    /\ trace = [i \in Invocations |-> <<>>]
    /\ genCalls = {}
    /\ updCalls = {}
    /\ versionAtCall = [i \in Invocations |-> [d \in Descriptors |-> NoVersion]]

\* logErrorAndExitIfNotSatisfied not called yet.
ChecksInit ==
    /\ chkGiven = <<>>
    /\ chkFailing = {}
    /\ chkPc = "idle"
    /\ chkPos = 0
    /\ chkInvoked = <<>>
    /\ spinner = <<>>
    /\ exitCode = -1

\* An optional value: None is undefined, <<x>> is x.
None == <<>>

\* runMiniApp not called yet.
RunInit ==
    /\ runPc = "idle"
    /\ runPlatform = "android"
    /\ runArgs = [mainMiniAppName |-> None, miniapps |-> None,
                  dependencies |-> None, descriptor |-> None, dev |-> None]
    /\ runEnv = [cwdIsMiniApp |-> FALSE, runnerExists |-> FALSE]
    /\ runLocals = [napDescriptor |-> None, entryMiniAppName |-> "",
                    dependenciesObjs |-> <<>>, miniAppsPaths |-> <<>>,
                    dev |-> None]
    /\ runError = "none"
    /\ runEffects = <<>>

\* getNapDescriptorStringsFromCauldron not called yet.
NapInit ==
    /\ napPc = "idle"
    /\ napOptions = [platform |-> None, onlyReleasedVersions |-> None,
                     onlyNonReleasedVersions |-> None]
    /\ napApps = <<>>
    /\ napResult = <<>>

Init ==
    /\ \E vs \in [Descriptors -> InitialVersions] : UpdateInit(vs)
    /\ ChecksInit
    /\ RunInit
    /\ NapInit

----------------------------------------------------------------------------
\* Steps of an invocation.

Range(q) == {q[k] : k \in 1..Len(q)}

\* A statement of the catch block runs unless a throw precedes it.
Executes(stmt) ==
    \E k \in 1..Len(CatchBody) :
        /\ CatchBody[k] = stmt
        /\ \A j \in 1..(k - 1) : CatchBody[j] # "throw"

\* The awaited call `call` of invocation i completed; c is the client after it.
\* After the last call of the try block the function logs and returns.
Succeed(i, call, c) ==
    /\ cauldron' = c
    /\ trace' = [trace EXCEPT ![i] = Append(@, <<call, "ok">>)]
    /\ IF step[i] = Len(TryBody)
       THEN /\ pc' = [pc EXCEPT ![i] = "resolved"]
            /\ logged' = logged \cup {<<i, "debug", "Published">>}
            /\ step' = step
       ELSE /\ step' = [step EXCEPT ![i] = @ + 1]
            /\ UNCHANGED <<pc, logged>>
    /\ UNCHANGED <<error, discardPending>>

\* The awaited call `call` of invocation i threw e; c is the client after it.
\* The catch block: log.error, discardTransaction() (not awaited), throw e.
Catch(i, call, e, c) ==
    \E r \in (IF Executes("discardTransaction") THEN DiscardResults ELSE {"none"}) :
        /\ cauldron' = IF r = "done" THEN DiscardTransactionOk(c) ELSE c
        /\ discardPending' =
              IF r = "pending" THEN discardPending \cup {i} ELSE discardPending
        /\ logged' =
              IF Executes("log.error") THEN logged \cup {<<i, "error", e>>}
              ELSE logged
        /\ trace' = [trace EXCEPT ![i] =
              @ \o <<<<call, "failed">>>>
                \o (IF r = "none" THEN <<>> ELSE <<<<"discardTransaction", r>>>>)]
        /\ IF Executes("throw")
           THEN /\ pc' = [pc EXCEPT ![i] = "rejected"]
                /\ error' = [error EXCEPT ![i] = Rethrow(e)]
           ELSE /\ pc' = [pc EXCEPT ![i] = "resolved"]
                /\ error' = error
        /\ step' = step

\* Entry of the function. With a containerVersion the version is selected at
\* once and the try block entered. Call is the entry with one update in
\* flight at a time (the caller awaits each call).
Enter(i, d, cv) ==
    /\ pc[i] = "idle"
    /\ napDescriptor' = [napDescriptor EXCEPT ![i] = d]
    /\ containerVersion' = [containerVersion EXCEPT ![i] = cv]
    /\ versionAtCall' = [versionAtCall EXCEPT ![i] = cauldron.committed.version]
    /\ IF Given(cv)
       THEN /\ cauldronContainerVersion' = [cauldronContainerVersion EXCEPT ![i] = cv]
            /\ pc' = [pc EXCEPT ![i] = "try"]
            /\ step' = [step EXCEPT ![i] = 1]
       ELSE /\ pc' = [pc EXCEPT ![i] = "select"]
            /\ UNCHANGED <<cauldronContainerVersion, step>>
    /\ UNCHANGED <<cauldron, published, discardPending, discardFailed,
                   topLevelContainerVersion, error, logged, trace, genCalls,
                   updCalls>>
    /\ UNCHANGED otherVars

Call(i, d, cv) ==
    /\ \A j \in Invocations : j < i => Returned(j)
    /\ Enter(i, d, cv)

\* The process calls the function while earlier calls are still running:
\* the async function is called again before the promise of a previous
\* call has settled.
CallWhileRunning(i, d, cv) ==
    /\ \A j \in Invocations : j < i => pc[j] # "idle"
    /\ Enter(i, d, cv)

\* await cauldron.getTopLevelContainerVersion(napDescriptor), outside the try.
SelectVersion(i) ==
    /\ pc[i] = "select"
    /\ \/ /\ topLevelContainerVersion' = [topLevelContainerVersion EXCEPT ![i] =
                GetTopLevelContainerVersion(cauldron, napDescriptor[i])]
          /\ cauldronContainerVersion' = [cauldronContainerVersion EXCEPT ![i] =
                NextContainerVersion(
                    GetTopLevelContainerVersion(cauldron, napDescriptor[i]))]
          /\ pc' = [pc EXCEPT ![i] = "try"]
          /\ step' = [step EXCEPT ![i] = 1]
          /\ trace' = [trace EXCEPT ![i] =
                Append(@, <<"getTopLevelContainerVersion", "ok">>)]
          /\ UNCHANGED error
       \/ /\ pc' = [pc EXCEPT ![i] = "rejected"]
          /\ error' = [error EXCEPT ![i] = "ReadError"]
          /\ trace' = [trace EXCEPT ![i] =
                Append(@, <<"getTopLevelContainerVersion", "failed">>)]
          /\ UNCHANGED <<topLevelContainerVersion, cauldronContainerVersion, step>>
    /\ UNCHANGED <<cauldron, published, discardPending, discardFailed,
                   napDescriptor, containerVersion, logged, genCalls, updCalls,
                   versionAtCall>>
    /\ UNCHANGED otherVars

\* await cauldron.beginTransaction()
BeginTransaction(i) ==
    /\ Awaiting(i, "beginTransaction")
    /\ \/ /\ CanBegin(cauldron)
          /\ Succeed(i, "beginTransaction", BeginTransactionOk(cauldron, i))
       \/ Catch(i, "beginTransaction", "BeginError", cauldron)
    /\ UNCHANGED <<published, discardFailed, napDescriptor, containerVersion,
                   topLevelContainerVersion, cauldronContainerVersion, genCalls,
                   updCalls, versionAtCall>>
    /\ UNCHANGED otherVars

\* await stateUpdateFunc(): it changes the container's state in the Cauldron,
\* or throws, before or after having written.
StateUpdateFunc(i) ==
    /\ Awaiting(i, "stateUpdateFunc")
    /\ \/ Succeed(i, "stateUpdateFunc", WriteMutation(cauldron, i))
       \/ Catch(i, "stateUpdateFunc", "StateUpdateError", cauldron)
       \/ Catch(i, "stateUpdateFunc", "StateUpdateError", WriteMutation(cauldron, i))
    /\ UNCHANGED <<published, discardFailed, napDescriptor, containerVersion,
                   topLevelContainerVersion, cauldronContainerVersion, genCalls,
                   updCalls, versionAtCall>>
    /\ UNCHANGED otherVars

\* await spin(..., runCauldronContainerGen(napDescriptor,
\*   cauldronContainerVersion, { publish: true }))
RunCauldronContainerGen(i) ==
    /\ Awaiting(i, "runCauldronContainerGen")
    /\ genCalls' = genCalls \cup
          {[inv |-> i, descriptor |-> napDescriptor[i],
            version |-> cauldronContainerVersion[i], publish |-> PublishOption]}
    /\ \/ /\ Succeed(i, "runCauldronContainerGen", cauldron)
          /\ published' =
                IF PublishOption
                THEN published \cup {<<napDescriptor[i], cauldronContainerVersion[i]>>}
                ELSE published
       \/ /\ Catch(i, "runCauldronContainerGen", "ContainerGenError", cauldron)
          /\ UNCHANGED published
    /\ UNCHANGED <<discardFailed, napDescriptor, containerVersion,
                   topLevelContainerVersion, cauldronContainerVersion, updCalls,
                   versionAtCall>>
    /\ UNCHANGED otherVars

\* await cauldron.updateContainerVersion(napDescriptor, cauldronContainerVersion)
UpdateContainerVersion(i) ==
    /\ Awaiting(i, "updateContainerVersion")
    /\ updCalls' = updCalls \cup
          {[inv |-> i, descriptor |-> napDescriptor[i],
            version |-> cauldronContainerVersion[i]]}
    /\ \/ Succeed(i, "updateContainerVersion",
                  WriteContainerVersion(cauldron, napDescriptor[i],
                                        cauldronContainerVersion[i], i))
       \/ Catch(i, "updateContainerVersion", "UpdateError", cauldron)
    /\ UNCHANGED <<published, discardFailed, napDescriptor, containerVersion,
                   topLevelContainerVersion, cauldronContainerVersion, genCalls,
                   versionAtCall>>
    /\ UNCHANGED otherVars

\* await spin(`Updating Cauldron`, cauldron.commitTransaction())
CommitTransaction(i) ==
    /\ Awaiting(i, "commitTransaction")
    /\ \/ /\ CanCommit(cauldron)
          /\ Succeed(i, "commitTransaction", CommitTransactionOk(cauldron))
       \/ Catch(i, "commitTransaction", "CommitError", cauldron)
    /\ UNCHANGED <<published, discardFailed, napDescriptor, containerVersion,
                   topLevelContainerVersion, cauldronContainerVersion, genCalls,
                   updCalls, versionAtCall>>
    /\ UNCHANGED otherVars

\* A discardTransaction() still in flight settles: it drops whatever
\* transaction is open by then, or fails, which nobody observes.
DiscardSettles(i) ==
    /\ i \in discardPending
    /\ discardPending' = discardPending \ {i}
    /\ \/ /\ cauldron' = DiscardTransactionOk(cauldron)
          /\ UNCHANGED discardFailed
       \/ /\ discardFailed' = discardFailed \cup {i}
          /\ UNCHANGED cauldron
    /\ UNCHANGED <<published, pc, step, napDescriptor, containerVersion,
                   topLevelContainerVersion, cauldronContainerVersion, error,
                   logged, trace, genCalls, updCalls, versionAtCall>>
    /\ UNCHANGED otherVars

Next ==
    \/ \E i \in Invocations, d \in Descriptors, cv \in ContainerVersionOptions :
          Call(i, d, cv)
    \/ \E i \in Invocations : SelectVersion(i)
    \/ \E i \in Invocations : BeginTransaction(i)
    \/ \E i \in Invocations : StateUpdateFunc(i)
    \/ \E i \in Invocations : RunCauldronContainerGen(i)
    \/ \E i \in Invocations : UpdateContainerVersion(i)
    \/ \E i \in Invocations : CommitTransaction(i)
    \/ \E i \in Invocations : DiscardSettles(i)

Spec == Init /\ [][Next]_vars

\* Calls that interleave at their awaits.
NextInterleaved ==
    \/ \E i \in Invocations, d \in Descriptors, cv \in ContainerVersionOptions :
          CallWhileRunning(i, d, cv)
    \/ \E i \in Invocations : SelectVersion(i)
    \/ \E i \in Invocations : BeginTransaction(i)
    \/ \E i \in Invocations : StateUpdateFunc(i)
    \/ \E i \in Invocations : RunCauldronContainerGen(i)
    \/ \E i \in Invocations : UpdateContainerVersion(i)
    \/ \E i \in Invocations : CommitTransaction(i)
    \/ \E i \in Invocations : DiscardSettles(i)

SpecInterleaved == Init /\ [][NextInterleaved]_vars

----------------------------------------------------------------------------
\* logErrorAndExitIfNotSatisfied

MaxKeys == 2

\* The keys in the order the parameter list declares them.
CheckOrderAsDeclared ==
    <<"noGitOrFilesystemPath",
      "isValidContainerVersion",
      "isNewerContainerVersion",
      "isCompleteNapDescriptorString",
      "napDescriptorExistInCauldron",
      "napDescritorDoesNotExistsInCauldron",
      "publishedToNpm",
      "miniAppNotInNativeApplicationVersionContainer",
      "miniAppIsInNativeApplicationVersionContainer",
      "miniAppIsInNativeApplicationVersionContainerWithDifferentVersion",
      "dependencyNotInNativeApplicationVersionContainer",
      "dependencyIsInNativeApplicationVersionContainer",
      "dependencyIsInNativeApplicationVersionContainerWithDifferentVersion",
      "dependencyNotInUseByAMiniApp",
      "cauldronIsActive">>

\* The keys in the order of the `if` statements of the try block.
CheckOrder ==
    <<"cauldronIsActive",
      "isValidContainerVersion",
      "isNewerContainerVersion",
      "isCompleteNapDescriptorString",
      "noGitOrFilesystemPath",
      "napDescriptorExistInCauldron",
      "napDescritorDoesNotExistsInCauldron",
      "publishedToNpm",
      "miniAppNotInNativeApplicationVersionContainer",
      "miniAppIsInNativeApplicationVersionContainer",
      "miniAppIsInNativeApplicationVersionContainerWithDifferentVersion",
      "dependencyNotInNativeApplicationVersionContainer",
      "dependencyIsInNativeApplicationVersionContainer",
      "dependencyIsInNativeApplicationVersionContainerWithDifferentVersion",
      "dependencyNotInUseByAMiniApp">>

CheckKeys == Range(CheckOrderAsDeclared)

\* The argument objects: up to MaxKeys distinct keys, in the order supplied.
KeyLists ==
    {g \in UNION {[1..n -> CheckKeys] : n \in 0..MaxKeys} :
        \A a, b \in 1..Len(g) : a # b => g[a] # g[b]}

PresentAlways(given, key) == TRUE

\* The destructured parameter `key` is truthy: the argument object has it.
Present(given, key) == \E k \in 1..Len(given) : given[k] = key

CheckCatchNoExit == <<"spinner.fail">>

\* The catch block.
CheckCatchBody == <<"spinner.fail", "process.exit">>

ExitStatus == 1

\* const spinner = ora('Performing initial checks').start()
LogErrorAndExitIfNotSatisfied(given, failing) ==
    /\ chkPc = "idle"
    /\ chkGiven' = given
    /\ chkFailing' = failing
    /\ chkPc' = "running"
    /\ chkPos' = 0
    /\ chkInvoked' = <<>>
    /\ spinner' = <<<<"start", "Performing initial checks">>>>
    /\ UNCHANGED exitCode
    /\ UNCHANGED checkOtherVars

\* The `if` statements left whose key is present.
ChecksLeft ==
    {k \in (chkPos + 1)..Len(CheckOrder) : Present(chkGiven, CheckOrder[k])}

\* The next present check: spinner.text = ..., Ensure.<check>(...). The check
\* returns, or throws into the catch block.
EnsureCheck ==
    /\ chkPc = "running"
    /\ ChecksLeft # {}
    /\ LET k == CHOOSE x \in ChecksLeft : \A y \in ChecksLeft : x <= y
           key == CheckOrder[k]
       IN  /\ chkInvoked' = Append(chkInvoked, key)
           /\ IF key \in chkFailing
              THEN /\ spinner' = spinner \o
                        <<<<"text", key>>>> \o
                        (IF "spinner.fail" \in Range(CheckCatchBody)
                         THEN <<<<"fail", key>>>> ELSE <<>>)
                   /\ IF "process.exit" \in Range(CheckCatchBody)
                      THEN /\ chkPc' = "exited"
                           /\ exitCode' = ExitStatus
                      ELSE /\ chkPc' = "returned"
                           /\ UNCHANGED exitCode
                   /\ UNCHANGED chkPos
              ELSE /\ spinner' = Append(spinner, <<"text", key>>)
                   /\ chkPos' = k
                   /\ UNCHANGED <<chkPc, exitCode>>
    /\ UNCHANGED <<chkGiven, chkFailing>>
    /\ UNCHANGED checkOtherVars

\* spinner.succeed('All initial checks have passed')
ChecksPassed ==
    /\ chkPc = "running"
    /\ ChecksLeft = {}
    /\ spinner' = Append(spinner, <<"succeed", "All initial checks have passed">>)
    /\ chkPc' = "passed"
    /\ UNCHANGED <<chkGiven, chkFailing, chkPos, chkInvoked, exitCode>>
    /\ UNCHANGED checkOtherVars

InitChecks ==
    /\ UpdateInit([d \in Descriptors |-> NoVersion])
    /\ ChecksInit
    /\ RunInit
    /\ NapInit

NextChecks ==
    \/ \E given \in KeyLists : \E failing \in SUBSET Range(given) :
          LogErrorAndExitIfNotSatisfied(given, failing)
    \/ EnsureCheck
    \/ ChecksPassed

SpecChecks == InitChecks /\ [][NextChecks]_vars

----------------------------------------------------------------------------
\* runMiniApp

MaxMiniApps == 2
MaxDependencies == 1

\* An optional value is None (undefined) or <<x>>.
Defined(x) == x # None
TruthyString(x) == Defined(x) /\ x[1] # ""
TruthyBoolean(x) == Defined(x) /\ x[1]

Platforms == {"android", "ios", "windows"}
MainMiniAppNames == {None, <<"">>, <<"MiniAppB">>}
MiniAppsOptions ==
    {None} \cup {<<[k \in 1..n |-> "MiniAppB"]>> : n \in 0..MaxMiniApps}
DependenciesOptions ==
    {None} \cup {<<[k \in 1..n |-> "dep@1.0.0"]>> : n \in 0..MaxDependencies}
DescriptorOptions == {None, <<"">>} \cup {<<d>> : d \in Descriptors}
DevOptions == {None, <<TRUE>>, <<FALSE>>}

RunArgs ==
    [mainMiniAppName : MainMiniAppNames, miniapps : MiniAppsOptions,
     dependencies : DependenciesOptions, descriptor : DescriptorOptions,
     dev : DevOptions]

\* The working directory: MiniApp.existInPath(cwd), fs.existsSync(<runner>).
RunEnvs == [cwdIsMiniApp : BOOLEAN, runnerExists : BOOLEAN]

UsageErrorNone(args) == "none"

\* The four checks of the arguments, in order; "none" when all pass.
UsageError(args) ==
    IF /\ Defined(args.miniapps) /\ Len(args.miniapps[1]) > 1
       /\ ~TruthyString(args.mainMiniAppName)
    THEN "If you provide multiple MiniApps you need to provide the name of the MiniApp to launch"
    ELSE IF /\ Defined(args.miniapps) /\ Len(args.miniapps[1]) > 1
            /\ TruthyBoolean(args.dev)
    THEN "You cannot enable development mode yet when running multiple MiniApps"
    ELSE IF /\ Defined(args.dependencies) /\ Len(args.dependencies[1]) > 0
            /\ TruthyString(args.descriptor)
    THEN "You cannot pass extra native dependencies when using a Native Application Descriptor"
    ELSE IF Defined(args.miniapps) /\ TruthyString(args.descriptor)
    THEN "You cannot use miniapps and descriptor at the same time"
    ELSE "none"

RunnerPublishOptionOn == TRUE

\* publish: false
RunnerPublishOption == FALSE
RunnerContainerVersion == <<1, 0, 0, FALSE>>

\* _.map(list, f) of a list that may be undefined
MapOver(list, tag) ==
    IF Defined(list) THEN [k \in 1..Len(list[1]) |-> <<tag, list[1][k]>>] ELSE <<>>

CwdPath == <<"path", "cwd">>
CwdMiniAppName == "MiniAppA"

\* The call: the arguments are validated before anything else.
RunMiniApp(platform, args, env) ==
    /\ runPc = "idle"
    /\ runPlatform' = platform
    /\ runArgs' = args
    /\ runEnv' = env
    /\ runLocals' = [runLocals EXCEPT !.dev = args.dev]
    /\ IF UsageError(args) # "none"
       THEN /\ runPc' = "rejected"
            /\ runError' = UsageError(args)
       ELSE /\ runPc' = IF TruthyString(args.descriptor) THEN "checks" ELSE "prepare"
            /\ UNCHANGED runError
    /\ UNCHANGED <<runEffects, updateVars, checkVars, napVars>>

\* await utils.logErrorAndExitIfNotSatisfied({ isCompleteNapDescriptorString,
\*   napDescriptorExistInCauldron })
RunCallsChecks ==
    /\ runPc = "checks"
    /\ \E failing \in SUBSET {"isCompleteNapDescriptorString",
                              "napDescriptorExistInCauldron"} :
          LogErrorAndExitIfNotSatisfied(
              <<"isCompleteNapDescriptorString", "napDescriptorExistInCauldron">>,
              failing)

\* napDescriptor = NativeApplicationDescriptor.fromString(descriptor)
RunAfterChecks ==
    /\ runPc = "checks"
    /\ chkPc = "passed"
    /\ runLocals' = [runLocals EXCEPT !.napDescriptor = runArgs.descriptor]
    /\ runPc' = "prepare"
    /\ UNCHANGED <<runPlatform, runArgs, runEnv, runError, runEffects,
                   updateVars, checkVars, napVars>>

Throws(e) ==
    /\ runPc' = "rejected"
    /\ runError' = e

\* The entry MiniApp, the paths and the dependencies; the packager is started
\* for a standalone MiniApp when dev is not defined.
RunPrepare ==
    /\ runPc = "prepare"
    /\ LET entry == IF TruthyString(runArgs.mainMiniAppName)
                    THEN runArgs.mainMiniAppName[1] ELSE ""
           deps == MapOver(runArgs.dependencies, "dependency")
       IN  IF Defined(runArgs.miniapps)
           THEN /\ runLocals' = [runLocals EXCEPT
                      !.entryMiniAppName =
                          IF runEnv.cwdIsMiniApp /\ ~TruthyString(runArgs.mainMiniAppName)
                          THEN CwdMiniAppName ELSE entry,
                      !.dependenciesObjs = deps,
                      !.miniAppsPaths =
                          (IF runEnv.cwdIsMiniApp THEN <<CwdPath>> ELSE <<>>)
                              \o MapOver(runArgs.miniapps, "path")]
                /\ runPc' = "container"
                /\ UNCHANGED <<runError, runEffects>>
           ELSE IF ~Defined(runArgs.miniapps) /\ ~TruthyString(runArgs.descriptor)
           THEN IF ~runEnv.cwdIsMiniApp
                THEN /\ Throws("MiniApp.fromCurrentPath")
                     /\ UNCHANGED <<runLocals, runEffects>>
                ELSE /\ runLocals' = [runLocals EXCEPT
                           !.entryMiniAppName = CwdMiniAppName,
                           !.dependenciesObjs = deps,
                           !.miniAppsPaths = <<CwdPath>>,
                           !.dev = IF Defined(runLocals.dev)
                                   THEN runLocals.dev ELSE <<TRUE>>]
                     /\ IF Defined(runLocals.dev)
                        THEN /\ runPc' = "container"
                             /\ UNCHANGED <<runError, runEffects>>
                        ELSE /\ runEffects' =
                                   Append(runEffects, [call |-> "startPackagerInNewWindow"])
                             /\ \/ runPc' = "container" /\ UNCHANGED runError
                                \/ Throws("startPackagerInNewWindow")
           ELSE /\ runLocals' = [runLocals EXCEPT !.entryMiniAppName = entry]
                /\ runPc' = "container"
                /\ UNCHANGED <<runError, runEffects>>
    /\ UNCHANGED <<runPlatform, runArgs, runEnv, updateVars, checkVars, napVars>>

\* generateContainerForRunner: from the Cauldron when there is a descriptor,
\* locally otherwise; an unsupported platform throws here.
RunGenerateContainer ==
    /\ runPc = "container"
    /\ IF runPlatform \notin {"android", "ios"}
       THEN /\ Throws("Unsupported platform")
            /\ UNCHANGED <<runEffects, published>>
       ELSE IF Defined(runLocals.napDescriptor)
       THEN /\ runEffects' = Append(runEffects,
                  [call |-> "runCauldronContainerGen",
                   napDescriptor |-> runLocals.napDescriptor[1],
                   version |-> RunnerContainerVersion,
                   publish |-> RunnerPublishOption,
                   containerName |-> "runner"])
            /\ \/ /\ runPc' = "runner"
                  /\ published' =
                        IF RunnerPublishOption
                        THEN published \cup
                               {<<runLocals.napDescriptor[1], RunnerContainerVersion>>}
                        ELSE published
                  /\ UNCHANGED runError
               \/ /\ Throws("runCauldronContainerGen")
                  /\ UNCHANGED published
       ELSE /\ runEffects' = Append(runEffects,
                  [call |-> "runLocalContainerGen",
                   miniAppsPaths |-> runLocals.miniAppsPaths,
                   platform |-> runPlatform,
                   containerVersion |-> RunnerContainerVersion,
                   nativeAppName |-> "runner",
                   extraNativeDependencies |-> runLocals.dependenciesObjs])
            /\ \/ runPc' = "runner" /\ UNCHANGED runError
               \/ Throws("runLocalContainerGen")
            /\ UNCHANGED published
    /\ UNCHANGED <<runPlatform, runArgs, runEnv, runLocals, checkVars, napVars>>
    /\ UNCHANGED <<cauldron, discardPending, discardFailed, pc, step,
                   napDescriptor, containerVersion, topLevelContainerVersion,
                   cauldronContainerVersion, error, logged, trace, genCalls,
                   updCalls, versionAtCall>>

\* The runner project is generated, or its configuration regenerated when
\* the project directory exists.
RunGenerateRunner ==
    /\ runPc = "runner"
    /\ runEffects' = Append(runEffects,
          [call |-> IF runEnv.runnerExists
                    THEN "regenerateRunnerConfig" ELSE "generateRunnerProject",
           platform |-> runPlatform,
           entryMiniAppName |-> runLocals.entryMiniAppName,
           reactNativeDevSupportEnabled |-> runLocals.dev])
    /\ \/ /\ runPc' = "launch"
          /\ runEnv' = [runEnv EXCEPT !.runnerExists = TRUE]
          /\ UNCHANGED runError
       \/ /\ Throws("generateRunner")
          /\ runEnv' = [runEnv EXCEPT !.runnerExists = TRUE]
    /\ UNCHANGED <<runPlatform, runArgs, runLocals, updateVars, checkVars,
                   napVars>>

\* await launchAndroidRunner(...) / launchIosRunner(...)
RunLaunch ==
    /\ runPc = "launch"
    /\ runEffects' = Append(runEffects,
          [call |-> "launchRunner", platform |-> runPlatform])
    /\ \/ runPc' = "resolved" /\ UNCHANGED runError
       \/ Throws("launchRunner")
    /\ UNCHANGED <<runPlatform, runArgs, runEnv, runLocals, updateVars,
                   checkVars, napVars>>

InitRun ==
    /\ UpdateInit([d \in Descriptors |-> <<2, 1, 0, FALSE>>])
    /\ ChecksInit
    /\ RunInit
    /\ NapInit

NextRun ==
    \/ \E platform \in Platforms, args \in RunArgs, env \in RunEnvs :
          RunMiniApp(platform, args, env)
    \/ RunCallsChecks
    \/ EnsureCheck
    \/ ChecksPassed
    \/ RunAfterChecks
    \/ RunPrepare
    \/ RunGenerateContainer
    \/ RunGenerateRunner
    \/ RunLaunch

SpecRun == InitRun /\ [][NextRun]_vars

----------------------------------------------------------------------------
\* getNapDescriptorStringsFromCauldron

MaxApps == 1

AppNames == <<"MyApp", "OtherApp">>
PlatformNames == <<"android", "ios">>
VersionNames == <<"1.0.0", "2.0.0">>

\* The versions of a platform, each released or not.
VersionLists ==
    UNION {{[k \in 1..n |-> [name |-> VersionNames[k], isReleased |-> r[k]]] :
                r \in [1..n -> BOOLEAN]} : n \in 0..Len(VersionNames)}

PlatformLists ==
    UNION {{[k \in 1..n |-> [name |-> PlatformNames[k], versions |-> vs[k]]] :
                vs \in [1..n -> VersionLists]} : n \in 0..Len(PlatformNames)}

\* What cauldron.getAllNativeApps() can return: up to MaxApps applications.
NativeAppLists ==
    UNION {{[k \in 1..n |-> [name |-> AppNames[k], platforms |-> ps[k]]] :
                ps \in [1..n -> PlatformLists]} : n \in 0..MaxApps}

NapOptions ==
    [platform : {None} \cup {<<PlatformNames[k]>> : k \in 1..Len(PlatformNames)},
     onlyReleasedVersions : {None, <<TRUE>>, <<FALSE>>},
     onlyNonReleasedVersions : {None, <<TRUE>>, <<FALSE>>}]

\* What the innermost callback returns when it reaches its end.
Undefined == "undefined"

\* The innermost callback of the three nested _.map calls.
VersionCallback(nativeApp, p, version, options) ==
    IF ~TruthyString(options.platform) \/ options.platform[1] = p.name
    THEN IF \/ version.isReleased /\ ~TruthyBoolean(options.onlyNonReleasedVersions)
            \/ ~version.isReleased /\ ~TruthyBoolean(options.onlyReleasedVersions)
         THEN nativeApp.name \o ":" \o p.name \o ":" \o version.name
         ELSE Undefined
    ELSE Undefined

\* _.map(nativeApps, nativeApp => _.map(nativeApp.platforms, p =>
\*   _.map(p.versions, version => ...)))
MapNativeApps(nativeApps, options) ==
    [a \in 1..Len(nativeApps) |->
        [p \in 1..Len(nativeApps[a].platforms) |->
            [v \in 1..Len(nativeApps[a].platforms[p].versions) |->
                VersionCallback(nativeApps[a], nativeApps[a].platforms[p],
                                nativeApps[a].platforms[p].versions[v], options)]]]

RECURSIVE Flatten(_)
\* One level of flattening: the concatenation of the lists of a list.
Flatten(lists) ==
    IF Len(lists) = 0 THEN <<>> ELSE Head(lists) \o Flatten(Tail(lists))

\* _.flattenDeep of the list of lists of lists of the nested maps
FlattenDeep(nested) ==
    Flatten([a \in 1..Len(nested) |-> Flatten(nested[a])])

KeepAll(list) == list

\* _.filter(list, elt => elt !== undefined)
FilterDefined(list) == SelectSeq(list, LAMBDA elt : elt # Undefined)

\* The call, up to await cauldron.getAllNativeApps()
GetNapDescriptorStringsFromCauldron(options) ==
    /\ napPc = "idle"
    /\ napOptions' = options
    /\ napPc' = "getAllNativeApps"
    /\ UNCHANGED <<napApps, napResult>>
    /\ UNCHANGED napOtherVars

\* getAllNativeApps returned nativeApps: the list of strings is returned.
GetAllNativeAppsReturns(nativeApps) ==
    /\ napPc = "getAllNativeApps"
    /\ napApps' = nativeApps
    /\ napResult' = FilterDefined(FlattenDeep(MapNativeApps(nativeApps, napOptions)))
    /\ napPc' = "resolved"
    /\ UNCHANGED napOptions
    /\ UNCHANGED napOtherVars

\* getAllNativeApps threw: so does the function.
GetAllNativeAppsThrows ==
    /\ napPc = "getAllNativeApps"
    /\ napPc' = "rejected"
    /\ UNCHANGED <<napOptions, napApps, napResult>>
    /\ UNCHANGED napOtherVars

InitNap ==
    /\ UpdateInit([d \in Descriptors |-> NoVersion])
    /\ ChecksInit
    /\ RunInit
    /\ NapInit

NextNap ==
    \/ \E options \in NapOptions : GetNapDescriptorStringsFromCauldron(options)
    \/ \E nativeApps \in NativeAppLists : GetAllNativeAppsReturns(nativeApps)
    \/ GetAllNativeAppsThrows

SpecNap == InitNap /\ [][NextNap]_vars

----------------------------------------------------------------------------
\* Properties.

Called(i, call) == \E k \in 1..Len(trace[i]) : trace[i][k][1] = call
Threw(i, call) == <<call, "failed">> \in Range(trace[i])
NoLaterCall(i) == \A j \in Invocations : j > i => pc[j] = "idle"

\* What a reader of the state store sees.
Visible == cauldron.committed

DiscardCalled(i) == Called(i, "discardTransaction")
CallsOf(calls, i) == {x \in calls : x.inv = i}

\* C1: when stateUpdateFunc throws, discardTransaction is invoked,
\* commitTransaction is never invoked, and on return the committed top-level
\* container versions are those of before the call.
C1_StateUpdateThrows ==
    \A i \in Invocations :
        Threw(i, "stateUpdateFunc") =>
            /\ DiscardCalled(i)
            /\ ~Called(i, "commitTransaction")
            /\ NoLaterCall(i) => Visible.version = versionAtCall[i]

C1_Witness ==
    \E i \in Invocations :
        /\ Threw(i, "stateUpdateFunc")
        /\ pc[i] = "rejected"
        /\ NoLaterCall(i)
        /\ versionAtCall[i][napDescriptor[i]] # NoVersion

\* C2: when runCauldronContainerGen throws, discardTransaction is invoked
\* before the error is re-raised, updateContainerVersion and commitTransaction
\* are never invoked, the caller receives the generator's error, and at no
\* moment of the invocation before a pointer write does a reader see another
\* version pointer than before the call (2.1.0 stays 2.1.0).
C2_ContainerGenThrows ==
    \A i \in Invocations :
        /\ Threw(i, "runCauldronContainerGen") =>
              /\ DiscardCalled(i)
              /\ ~Called(i, "updateContainerVersion")
              /\ ~Called(i, "commitTransaction")
              /\ CallsOf(updCalls, i) = {}
              /\ pc[i] = "rejected"
              /\ error[i] = "ContainerGenError"
        /\ (pc[i] # "idle" /\ NoLaterCall(i) /\ ~Called(i, "updateContainerVersion")) =>
              Visible.version = versionAtCall[i]

C2_Witness ==
    \E i \in Invocations :
        /\ Threw(i, "runCauldronContainerGen")
        /\ versionAtCall[i][napDescriptor[i]] = <<2, 1, 0, FALSE>>
        /\ Visible.version[napDescriptor[i]] = <<2, 1, 0, FALSE>>
        /\ error[i] = "ContainerGenError"

\* C3 (as claimed): when the function's promise resolves or rejects, no
\* transaction opened by that invocation is still open (the claim adds that
\* no discard is still pending, which fails whenever this does).
C3_ClosedOnReturn ==
    \A i \in Invocations :
        Returned(i) => ~(cauldron.txOpen /\ i \in cauldron.owners)

\* C4 (as claimed): in every state a reader sees all of an update's changes
\* or none of them: the state updates visible are those of the invocations
\* whose version pointer write is visible.
C4_AllOrNothing == Visible.muts = Visible.ptrs

\* C5: a successful invocation leaves exactly one committed version pointer
\* changed, that of its descriptor, now the version selected at its start; the
\* generator ran for that descriptor and version with publish enabled, and
\* the container is published.
C5_SuccessfulUpdate ==
    \A i \in Invocations :
        pc[i] = "resolved" =>
            /\ CallsOf(genCalls, i) =
                  {[inv |-> i, descriptor |-> napDescriptor[i],
                    version |-> cauldronContainerVersion[i], publish |-> TRUE]}
            /\ <<napDescriptor[i], cauldronContainerVersion[i]>> \in published
            /\ i \in Visible.ptrs
            /\ NoLaterCall(i) =>
                  Visible.version =
                      [versionAtCall[i] EXCEPT
                          ![napDescriptor[i]] = cauldronContainerVersion[i]]

C5_Witness ==
    \E i \in Invocations :
        /\ pc[i] = "resolved"
        /\ containerVersion[i] = NoVersion
        /\ versionAtCall[i][napDescriptor[i]] = <<2, 1, 0, FALSE>>
        /\ Visible.version[napDescriptor[i]] = <<2, 1, 1, FALSE>>

IsStep(entry) == entry[1] # "discardTransaction"
Steps(i) == SelectSeq(trace[i], IsStep)

\* The order the claim gives; version selection reads the Cauldron only when
\* no containerVersion is given.
StepOrder(i) ==
    (IF containerVersion[i] = NoVersion
     THEN <<"getTopLevelContainerVersion">> ELSE <<>>)
    \o <<"beginTransaction", "stateUpdateFunc", "runCauldronContainerGen",
         "updateContainerVersion", "commitTransaction">>

\* C6: the steps of an invocation occur in the order version selection,
\* beginTransaction, stateUpdateFunc, runCauldronContainerGen,
\* updateContainerVersion, commitTransaction; a step is made only after the
\* previous one succeeded, none after a failed one, and the transaction is
\* begun with the version already selected.
C6_StepOrder ==
    \A i \in Invocations :
        LET t == Steps(i)
            order == StepOrder(i)
        IN  /\ Len(t) <= Len(order)
            /\ \A k \in 1..Len(t) :
                  /\ t[k][1] = order[k]
                  /\ k < Len(t) => t[k][2] = "ok"
            /\ pc[i] = "resolved" =>
                  /\ Len(t) = Len(order)
                  /\ t[Len(t)][2] = "ok"
            /\ Called(i, "beginTransaction") =>
                  cauldronContainerVersion[i] # NoVersion

C6_Witness ==
    \E i, j \in Invocations :
        /\ pc[i] = "resolved"
        /\ Len(Steps(i)) = 6
        /\ Threw(j, "updateContainerVersion")

\* C7: every version pointer a reader sees is that of a container already
\* generated and published.
C7_PublishedBeforePointer ==
    \A d \in Descriptors :
        Visible.version[d] # NoVersion => <<d, Visible.version[d]>> \in published

C7_Witness ==
    \E i \in Invocations :
        /\ i \in Visible.ptrs
        /\ Visible.version[napDescriptor[i]] = cauldronContainerVersion[i]
        /\ versionAtCall[i][napDescriptor[i]] # cauldronContainerVersion[i]

TrySteps ==
    {"beginTransaction", "stateUpdateFunc", "runCauldronContainerGen",
     "updateContainerVersion", "commitTransaction"}

ErrorOf(call) ==
    CASE call = "beginTransaction" -> "BeginError"
      [] call = "stateUpdateFunc" -> "StateUpdateError"
      [] call = "runCauldronContainerGen" -> "ContainerGenError"
      [] call = "updateContainerVersion" -> "UpdateError"
      [] call = "commitTransaction" -> "CommitError"

\* C8: when a step of the try block fails, the caller receives the error of
\* that step, which has been logged, and a failure of discardTransaction
\* does not replace it.
C8_OriginalError ==
    \A i \in Invocations : \A call \in TrySteps :
        Threw(i, call) =>
            /\ pc[i] = "rejected"
            /\ error[i] = ErrorOf(call)
            /\ <<i, "error", ErrorOf(call)>> \in logged

C8_Witness ==
    \E i \in Invocations :
        /\ Threw(i, "commitTransaction")
        /\ i \in discardFailed
        /\ error[i] = "CommitError"

\* C9: when beginTransaction fails the function fails, and stateUpdateFunc,
\* runCauldronContainerGen, updateContainerVersion and commitTransaction are
\* never invoked in that invocation.
C9_BeginFails ==
    \A i \in Invocations :
        Threw(i, "beginTransaction") =>
            /\ pc[i] = "rejected"
            /\ \A call \in TrySteps \ {"beginTransaction"} : ~Called(i, call)
            /\ CallsOf(genCalls, i) = {}
            /\ CallsOf(updCalls, i) = {}

C9_Witness ==
    \E i \in Invocations :
        /\ Threw(i, "beginTransaction")
        /\ pc[i] = "rejected"
        /\ ~cauldron.txOpen

\* C10: with no containerVersion given and no top-level container version
\* recorded for the descriptor, the version selected, passed to the generator
\* and to updateContainerVersion, is 1.0.0.
C10_DefaultVersion ==
    \A i \in Invocations :
        (/\ containerVersion[i] = NoVersion
         /\ <<"getTopLevelContainerVersion", "ok">> \in Range(trace[i])
         /\ topLevelContainerVersion[i] = NoVersion) =>
            /\ cauldronContainerVersion[i] = <<1, 0, 0, FALSE>>
            /\ \A g \in CallsOf(genCalls, i) : g.version = <<1, 0, 0, FALSE>>
            /\ \A u \in CallsOf(updCalls, i) : u.version = <<1, 0, 0, FALSE>>

C10_Witness ==
    \E i \in Invocations :
        /\ containerVersion[i] = NoVersion
        /\ topLevelContainerVersion[i] = NoVersion
        /\ \E u \in CallsOf(updCalls, i) : u.version = <<1, 0, 0, FALSE>>
        /\ \E g \in CallsOf(genCalls, i) : g.version = <<1, 0, 0, FALSE>>

ReadTopLevel(i) ==
    /\ containerVersion[i] = NoVersion
    /\ <<"getTopLevelContainerVersion", "ok">> \in Range(trace[i])

\* C11 (as claimed): with no containerVersion given and a recorded version
\* major.minor.patch, the version selected is major.minor.(patch+1).
C11_PatchPlusOne ==
    \A i \in Invocations :
        (ReadTopLevel(i) /\ topLevelContainerVersion[i] # NoVersion) =>
            cauldronContainerVersion[i] =
                <<topLevelContainerVersion[i][1], topLevelContainerVersion[i][2],
                  topLevelContainerVersion[i][3] + 1, FALSE>>

\* C11 (amended): with no containerVersion given, a recorded release version
\* major.minor.patch gives major.minor.(patch+1) (2.1.0 gives 2.1.1), and a
\* recorded prerelease of major.minor.patch gives major.minor.patch; that
\* version is the one passed to the generator and to updateContainerVersion.
C11_PatchIncrement ==
    \A i \in Invocations :
        (ReadTopLevel(i) /\ topLevelContainerVersion[i] # NoVersion) =>
            LET top == topLevelContainerVersion[i]
                expected == <<top[1], top[2],
                              IF top[4] THEN top[3] ELSE top[3] + 1, FALSE>>
            IN  /\ cauldronContainerVersion[i] = expected
                /\ \A g \in CallsOf(genCalls, i) : g.version = expected
                /\ \A u \in CallsOf(updCalls, i) : u.version = expected

C11_Witness ==
    \E i \in Invocations :
        /\ ReadTopLevel(i)
        /\ topLevelContainerVersion[i] = <<2, 1, 0, FALSE>>
        /\ \E u \in CallsOf(updCalls, i) : u.version = <<2, 1, 1, FALSE>>

\* C12: a given containerVersion is the version selected, passed as it is to
\* the generator and to updateContainerVersion; the current top-level version
\* is not read, and a successful call commits the given value also when it
\* is not greater than the previous one.
C12_GivenVersionVerbatim ==
    \A i \in Invocations :
        (pc[i] # "idle" /\ containerVersion[i] # NoVersion) =>
            /\ cauldronContainerVersion[i] = containerVersion[i]
            /\ ~Called(i, "getTopLevelContainerVersion")
            /\ \A g \in CallsOf(genCalls, i) : g.version = containerVersion[i]
            /\ \A u \in CallsOf(updCalls, i) : u.version = containerVersion[i]
            /\ (pc[i] = "resolved" /\ NoLaterCall(i)) =>
                  Visible.version[napDescriptor[i]] = containerVersion[i]

\* 2.1.0-beta committed over 2.1.0.
C12_Witness ==
    \E i \in Invocations :
        /\ pc[i] = "resolved"
        /\ NoLaterCall(i)
        /\ containerVersion[i] = <<2, 1, 0, TRUE>>
        /\ versionAtCall[i][napDescriptor[i]] = <<2, 1, 0, FALSE>>
        /\ Visible.version[napDescriptor[i]] = <<2, 1, 0, TRUE>>

\* Order of container versions: a release is greater than its prereleases,
\* any version greater than none.
SemverGt(a, b) ==
    IF a = NoVersion THEN FALSE
    ELSE IF b = NoVersion THEN TRUE
    ELSE \/ a[1] > b[1]
         \/ a[1] = b[1] /\ a[2] > b[2]
         \/ a[1] = b[1] /\ a[2] = b[2] /\ a[3] > b[3]
         \/ a[1] = b[1] /\ a[2] = b[2] /\ a[3] = b[3] /\ b[4] /\ ~a[4]

\* C13 (as claimed): when no invocation is given a containerVersion, every
\* version pointer that becomes visible is strictly greater than the one
\* visible immediately before it.
C13_StrictlyGreater ==
    [][(/\ \A i \in Invocations : containerVersion'[i] = NoVersion
        /\ Visible'.ptrs # Visible.ptrs) =>
          \A i \in Visible'.ptrs \ Visible.ptrs :
              SemverGt(Visible'.version[napDescriptor[i]],
                       Visible.version[napDescriptor[i]])]_vars

\* C14: the transactions begun and neither committed nor discarded are never
\* more than one, over any interleaving of invocations in the process.
C14_OneTransaction ==
    /\ Cardinality(cauldron.owners) <= 1
    /\ cauldron.txOpen <=> cauldron.owners # {}

C14_Witness ==
    \E i, j \in Invocations :
        /\ i # j
        /\ cauldron.owners = {i}
        /\ pc[i] = "try"
        /\ Threw(j, "beginTransaction")

\* C20 (as claimed): a transaction whose invocation is still running is
\* closed only by a step of that invocation.
C20_ClosesOnlyItsOwn ==
    [][\A j \in Invocations :
          (/\ cauldron.txOpen
           /\ j \in cauldron.owners
           /\ pc[j] = "try"
           /\ ~cauldron'.txOpen) => trace'[j] # trace[j]]_vars

----------------------------------------------------------------------------
\* Properties of logErrorAndExitIfNotSatisfied.

SpinnerShows(event) == \E k \in 1..Len(spinner) : spinner[k][1] = event

ChecksDone == chkPc \notin {"idle", "running"}

SomePresentCheckFails == chkFailing \cap Range(chkGiven) # {}

\* C15: the checks run one after the other and the first one that fails
\* aborts the rest: a check that failed is the last one invoked. With the keys
\* cauldronIsActive and isCompleteNapDescriptorString supplied and
\* cauldronIsActive failing, isCompleteNapDescriptorString is never invoked.
C15_FirstFailureAborts ==
    /\ \A k \in 1..Len(chkInvoked) :
          chkInvoked[k] \in chkFailing => k = Len(chkInvoked)
    /\ ( /\ Range(chkGiven) = {"cauldronIsActive", "isCompleteNapDescriptorString"}
         /\ "cauldronIsActive" \in chkFailing )
       => "isCompleteNapDescriptorString" \notin Range(chkInvoked)

C15_Witness ==
    /\ chkPc = "exited"
    /\ Range(chkGiven) = {"cauldronIsActive", "isCompleteNapDescriptorString"}
    /\ "cauldronIsActive" \in chkFailing
    /\ chkInvoked = <<"cauldronIsActive">>

\* C16: the process exits with status 1, after the failure was reported, if
\* and only if some present check fails; 'All initial checks have passed' is
\* shown if and only if every present check passes, and never together with
\* the failure report.
C16_ExitOrSuccess ==
    /\ ChecksDone => ((exitCode = 1) <=> SomePresentCheckFails)
    /\ exitCode # -1 => (exitCode = 1 /\ SpinnerShows("fail"))
    /\ ChecksDone => (SpinnerShows("succeed") <=> ~SomePresentCheckFails)
    /\ ~ChecksDone => (exitCode = -1 /\ ~SpinnerShows("succeed"))
    /\ \A k \in 1..Len(spinner) :
          spinner[k][1] = "succeed" => spinner[k][2] = "All initial checks have passed"
    /\ ~(SpinnerShows("succeed") /\ SpinnerShows("fail"))

C16_Witness ==
    /\ chkPc = "exited"
    /\ exitCode = 1
    /\ Len(chkInvoked) = 2
    /\ chkInvoked[1] \notin chkFailing
    /\ SpinnerShows("fail")

\* C17: a check is invoked only for a key that is present, and the checks are
\* invoked in one fixed order whatever the order the keys were supplied in;
\* when all pass, every present key has had its check.
C17_FixedOrder ==
    LET fixed == <<"cauldronIsActive",
                   "isValidContainerVersion",
                   "isNewerContainerVersion",
                   "isCompleteNapDescriptorString",
                   "noGitOrFilesystemPath",
                   "napDescriptorExistInCauldron",
                   "napDescritorDoesNotExistsInCauldron",
                   "publishedToNpm",
                   "miniAppNotInNativeApplicationVersionContainer",
                   "miniAppIsInNativeApplicationVersionContainer",
                   "miniAppIsInNativeApplicationVersionContainerWithDifferentVersion",
                   "dependencyNotInNativeApplicationVersionContainer",
                   "dependencyIsInNativeApplicationVersionContainer",
                   "dependencyIsInNativeApplicationVersionContainerWithDifferentVersion",
                   "dependencyNotInUseByAMiniApp">>
        rank(key) == CHOOSE k \in 1..Len(fixed) : fixed[k] = key
    IN  /\ Range(chkInvoked) \subseteq Range(chkGiven)
        /\ \A a, b \in 1..Len(chkInvoked) :
              a < b => rank(chkInvoked[a]) < rank(chkInvoked[b])
        /\ chkPc = "passed" => Range(chkInvoked) = Range(chkGiven)

C17_Witness ==
    /\ chkPc = "passed"
    /\ chkGiven = <<"publishedToNpm", "cauldronIsActive">>
    /\ chkInvoked = <<"cauldronIsActive", "publishedToNpm">>

----------------------------------------------------------------------------
\* Properties of runMiniApp.

\* C18: when the options are inconsistent (more than one miniapp without
\* mainMiniAppName, more than one miniapp with dev enabled, a non-empty
\* dependencies list with a descriptor, or miniapps with a descriptor)
\* runMiniApp throws a usage error having made no precondition check, started
\* no packager, generated no container or runner project, launched no runner.
C18_UsageErrorFirst ==
    LET severalMiniApps ==
            runArgs.miniapps # None /\ Len(runArgs.miniapps[1]) > 1
        hasMainMiniAppName == runArgs.mainMiniAppName \notin {None, <<"">>}
        hasDescriptor == runArgs.descriptor \notin {None, <<"">>}
        hasDependencies ==
            runArgs.dependencies # None /\ Len(runArgs.dependencies[1]) > 0
        inconsistent ==
            \/ severalMiniApps /\ ~hasMainMiniAppName
            \/ severalMiniApps /\ runArgs.dev = <<TRUE>>
            \/ hasDependencies /\ hasDescriptor
            \/ runArgs.miniapps # None /\ hasDescriptor
    IN  (runPc # "idle" /\ inconsistent) =>
            /\ runPc = "rejected"
            /\ runError \in
                 {"If you provide multiple MiniApps you need to provide the name of the MiniApp to launch",
                  "You cannot enable development mode yet when running multiple MiniApps",
                  "You cannot pass extra native dependencies when using a Native Application Descriptor",
                  "You cannot use miniapps and descriptor at the same time"}
            /\ runEffects = <<>>
            /\ chkPc = "idle"
            /\ spinner = <<>>

C18_Witness ==
    /\ runPc = "rejected"
    /\ runArgs.miniapps # None
    /\ Len(runArgs.miniapps[1]) = 1
    /\ runArgs.descriptor \in {<<d>> : d \in Descriptors}
    /\ runArgs.dependencies = None
    /\ runError = "You cannot use miniapps and descriptor at the same time"
    /\ runEffects = <<>>

----------------------------------------------------------------------------
\* Properties of getNapDescriptorStringsFromCauldron.

\* C19: the list returned holds exactly the strings name:platform:version of
\* the (application, platform, version) triples of getAllNativeApps whose
\* platform passes the platform filter (absent, or equal to the platform's
\* name) and whose version is released with onlyNonReleasedVersions unset or
\* not released with onlyReleasedVersions unset; it holds no undefined entry,
\* and it is empty when both flags are set.
C19_ExactlyTheMatching ==
    LET onlyReleased == napOptions.onlyReleasedVersions = <<TRUE>>
        onlyNonReleased == napOptions.onlyNonReleasedVersions = <<TRUE>>
        matching ==
            {t \in (1..Len(napApps)) \X (1..Len(PlatformNames)) \X (1..Len(VersionNames)) :
                /\ t[2] <= Len(napApps[t[1]].platforms)
                /\ t[3] <= Len(napApps[t[1]].platforms[t[2]].versions)
                /\ \/ napOptions.platform = None
                   \/ napOptions.platform = <<napApps[t[1]].platforms[t[2]].name>>
                /\ LET version == napApps[t[1]].platforms[t[2]].versions[t[3]]
                   IN  \/ version.isReleased /\ ~onlyNonReleased
                       \/ ~version.isReleased /\ ~onlyReleased}
        string(t) ==
            napApps[t[1]].name \o ":" \o napApps[t[1]].platforms[t[2]].name
                \o ":" \o napApps[t[1]].platforms[t[2]].versions[t[3]].name
    IN  napPc = "resolved" =>
            /\ Range(napResult) = {string(t) : t \in matching}
            /\ Len(napResult) = Cardinality(matching)
            /\ \A k \in 1..Len(napResult) : napResult[k] # "undefined"
            /\ (onlyReleased /\ onlyNonReleased) => napResult = <<>>

C19_Witness ==
    /\ napPc = "resolved"
    /\ napOptions.platform = <<"ios">>
    /\ napOptions.onlyReleasedVersions = <<TRUE>>
    /\ napOptions.onlyNonReleasedVersions = None
    /\ Len(napApps) = 1
    /\ Len(napApps[1].platforms) = 2
    /\ Len(napApps[1].platforms[1].versions) = 2
    /\ Len(napApps[1].platforms[2].versions) = 2
    /\ napApps[1].platforms[2].versions[1].isReleased
    /\ ~napApps[1].platforms[2].versions[2].isReleased
    /\ napResult = <<"MyApp:ios:1.0.0">>

----------------------------------------------------------------------------
\* Properties of successive updates.

\* C21: a failed update does not consume a version number: when a call with
\* no containerVersion given selected version V and failed, the next call for
\* the same descriptor with no containerVersion given selects V again.
C21_SameVersionAgain ==
    \A i, j \in Invocations :
        ( /\ j = i + 1
          /\ pc[i] = "rejected"
          /\ ReadTopLevel(i)
          /\ ReadTopLevel(j)
          /\ napDescriptor[j] = napDescriptor[i] )
        => cauldronContainerVersion[j] = cauldronContainerVersion[i]

----------------------------------------------------------------------------
\* Frame of runMiniApp.

ContainerGenerations ==
    {k \in 1..Len(runEffects) :
        runEffects[k].call \in {"runCauldronContainerGen", "runLocalContainerGen"}}

\* C22: runMiniApp leaves the state store as it was (no transaction opened,
\* no version pointer written) and publishes no container; it generates the
\* container at most once, exactly once when it gets past the generation:
\* with a descriptor by runCauldronContainerGen with publish false, version
\* 1.0.0 and container name 'runner', otherwise by runLocalContainerGen with
\* version 1.0.0 and native app name 'runner'.
C22_RunnerFrame ==
    /\ cauldron = CauldronInit([d \in Descriptors |-> <<2, 1, 0, FALSE>>])
    /\ ~cauldron.txOpen
    /\ published = {<<d, <<2, 1, 0, FALSE>>>> : d \in Descriptors}
    /\ Cardinality(ContainerGenerations) <= 1
    /\ runPc \in {"runner", "launch", "resolved"} =>
          Cardinality(ContainerGenerations) = 1
    /\ \A k \in ContainerGenerations :
          IF runArgs.descriptor \notin {None, <<"">>}
          THEN /\ runEffects[k].call = "runCauldronContainerGen"
               /\ runEffects[k].napDescriptor = runArgs.descriptor[1]
               /\ runEffects[k].version = <<1, 0, 0, FALSE>>
               /\ runEffects[k].publish = FALSE
               /\ runEffects[k].containerName = "runner"
          ELSE /\ runEffects[k].call = "runLocalContainerGen"
               /\ runEffects[k].containerVersion = <<1, 0, 0, FALSE>>
               /\ runEffects[k].nativeAppName = "runner"

C22_Witness ==
    /\ runPc = "resolved"
    /\ runArgs.descriptor \in {<<d>> : d \in Descriptors}
    /\ \E k \in ContainerGenerations :
          runEffects[k].call = "runCauldronContainerGen"
    /\ published = {<<d, <<2, 1, 0, FALSE>>>> : d \in Descriptors}

====
